---- MODULE Spec2Model ----
(***************************************************************************)
(* KD-tree nearest-neighbour index (include/kdtree.h) with its linear     *)
(* scanner, modelled over small integer grids.  Squared distances are     *)
(* exact integers; std::sqrt is a fixed-point root.                       *)
(***************************************************************************)
EXTENDS Naturals, Integers, Sequences, FiniteSets, TLC

\* ---------------------------------------------------------------- bounds
MaxN == 4          \* largest dataset
MaxCoord == 1      \* coordinates range over 0..MaxCoord
Dim == 2           \* dimension of the stored vectors
MaxLeaf == 2       \* leaf_size ranges over 1..MaxLeaf
MaxK == 3          \* k ranges over -1..MaxK
MaxRepeatN == 2    \* largest dataset where a result is kept across queries
SqrtScale == 100   \* fixed-point resolution of std::sqrt
MaxTextLen == 3    \* longest text given to the embedder, in bytes
EmbDim == 2        \* embedding_dim
WordBits == 10     \* width of size_t
RngBits == 8       \* width of the generator's word
MaxSnapN == 2      \* largest database saved to a file
MaxSnapText == 2   \* longest text of a saved item, in bytes
MaxSnapDim == 2    \* largest embedding dimension of a saved item
MaxBuildN == 3     \* largest dataset built call by call

\* std::numeric_limits<double>::max(): above every squared distance
DBL_MAX == 10000

\* DeterministicEmbedder::seed
seed == 42

\* sizeof(int), sizeof(double)
SizeofInt == 4
SizeofDouble == 8

Texts == <<"a", "b", "c", "d", "e", "f", "g", "h">>

Coord == 0..MaxCoord
Points == [1..Dim -> Coord]
LeafSizes == 1..MaxLeaf
Ks == (-1)..MaxK

\* struct DataItem { text, embedding }
DataItem(t, p) == [text |-> t, embedding |-> p]

\* datasets: item i carries the text Texts[i]
Datasets ==
  UNION { { [i \in 1..n |-> DataItem(Texts[i], f[i])] : f \in [1..n -> Points] }
          : n \in 0..MaxN }

\* query vectors: the index's dimension, one shorter, one longer
BadQueries == { [i \in 1..(Dim - 1) |-> 0], [i \in 1..(Dim + 1) |-> 0] }
Queries == Points \cup BadQueries

\* ------------------------------------------------------------ std::string
\* operator< on the texts in use ("" sorts first)
TextRank(t) == IF t = "" THEN 0 ELSE CHOOSE i \in 1..Len(Texts) : Texts[i] = t

\* --------------------------------------------------------------- std::sqrt
\* integer square root by Newton's iteration (r starts above the root)
RECURSIVE ISqrtFrom(_, _)
ISqrtFrom(x, r) ==
  LET r2 == (r + x \div r) \div 2
  IN IF r2 >= r THEN r ELSE ISqrtFrom(x, r2)

\* the root rounded down at resolution 1/SqrtScale: monotone, and it merges
\* neighbouring values only as rounding does
Sqrt(x) == IF x = 0 THEN 0 ELSE ISqrtFrom(x * SqrtScale * SqrtScale, x * SqrtScale * SqrtScale)

\* ------------------------------------------------------------------ Eigen
\* Out-of-range coefficient reads and size-mismatched expressions are
\* undefined: eig.assert = TRUE is the build with eigen_assert active
\* (abort), otherwise the read yields eig.garbage.
EigenChoices == { [assert |-> a, garbage |-> g] : a \in BOOLEAN, g \in Coord }

\* a query of the stored dimension involves no such choice
NoEig == [assert |-> FALSE, garbage |-> 0]
EigenFor(q, dims) == IF Len(q) = dims THEN { NoEig } ELSE EigenChoices

Coef(v, i, eig) == IF i <= Len(v) THEN v[i] ELSE eig.garbage

RECURSIVE SumSq(_, _, _, _)
SumSq(q, p, i, eig) ==
  IF i > Len(p) THEN 0
  ELSE (Coef(q, i, eig) - p[i]) * (Coef(q, i, eig) - p[i]) + SumSq(q, p, i + 1, eig)

\* (query - point).squaredNorm(); the expression takes its size from point
squaredNorm(q, p, eig) == SumSq(q, p, 1, eig)

\* (query - point).norm()
norm(q, p, eig) == Sqrt(squaredNorm(q, p, eig))

\* -------------------------------------------------------------- KDTree::Node
\* a Node* is <<>> (nullptr) or a one-element sequence holding the node
Null == <<>>
Node(p, t, a, l, r) == << [point |-> p, text |-> t, axis |-> a, left |-> l, right |-> r] >>

\* (variant: the comparator of line 62 with > in place of <)
StdSortDescending(data, start, end, axis) ==
  { [i \in 1..Len(data) |-> IF i > start /\ i <= end THEN data[pi[i]] ELSE data[i]]
    : pi \in { f \in Permutations((start + 1)..end) :
                 \A i \in (start + 1)..(end - 1) :
                   ~ (data[f[i + 1]].embedding[axis + 1] > data[f[i]].embedding[axis + 1]) } }

\* std::sort on [start, end) with the axis comparator: some permutation of
\* the range that is ordered by the axis coordinate (ties in any order)
StdSort(data, start, end, axis) ==
  { [i \in 1..Len(data) |-> IF i > start /\ i <= end THEN data[pi[i]] ELSE data[i]]
    : pi \in { f \in Permutations((start + 1)..end) :
                 \A i \in (start + 1)..(end - 1) :
                   ~ (data[f[i + 1]].embedding[axis + 1] < data[f[i]].embedding[axis + 1]) } }

\* (variant: line 66 taking the lower middle, (end - start - 1) / 2)
RECURSIVE buildTreeLowerMid(_, _, _, _, _, _)
buildTreeLowerMid(data, depth, start, end, ls, dims) ==
  IF start >= end THEN { Null }
  ELSE IF end - start <= ls
  THEN { Node(data[start + 1].embedding, data[start + 1].text, 0, Null, Null) }
  ELSE LET axis == depth % dims
           mid == start + (end - start - 1) \div 2
       IN UNION { { Node(s[mid + 1].embedding, s[mid + 1].text, axis, lr[1], lr[2])
                    : lr \in buildTreeLowerMid(s, depth + 1, start, mid, ls, dims)
                             \X buildTreeLowerMid(s, depth + 1, mid + 1, end, ls, dims) }
                  : s \in StdSort(data, start, end, axis) }

\* KDTree::buildTree: the set of trees the build can produce
RECURSIVE buildTree(_, _, _, _, _, _)
buildTree(data, depth, start, end, ls, dims) ==
  IF start >= end THEN { Null }
  ELSE IF end - start <= ls
  THEN { Node(data[start + 1].embedding, data[start + 1].text, 0, Null, Null) }
  ELSE LET axis == depth % dims
           mid == start + (end - start) \div 2
       IN UNION { { Node(s[mid + 1].embedding, s[mid + 1].text, axis, lr[1], lr[2])
                    : lr \in buildTree(s, depth + 1, start, mid, ls, dims)
                             \X buildTree(s, depth + 1, mid + 1, end, ls, dims) }
                  : s \in StdSort(data, start, end, axis) }

\* node_count: one increment per Node created
RECURSIVE NodeCount(_)
NodeCount(node) ==
  IF node = Null THEN 0 ELSE 1 + NodeCount(node[1].left) + NodeCount(node[1].right)

\* ------------------------------------------------------------ nearest search
\* traversal state: best_dist, best_text, the texts of the nodes entered
\* (in order) and whether the process is still running
SearchStart == [best_dist |-> DBL_MAX, best_text |-> "", visited |-> <<>>, status |-> "ok"]

\* lines 85-91: distance to the node's point, update on strict improvement
VisitNearest(n, query, st, eig) ==
  LET dist == squaredNorm(query, n.point, eig)
  IN IF dist < st.best_dist
     THEN [st EXCEPT !.best_dist = dist, !.best_text = n.text,
                     !.visited = Append(@, n.text)]
     ELSE [st EXCEPT !.visited = Append(@, n.text)]

\* (variant: line 104 with <= in place of <)
SearchSecondNearestOrEqual(diff, best_dist) == diff * diff <= best_dist

\* (variant: the comparison of line 104 inverted)
SearchSecondNearestInverted(diff, best_dist) == diff * diff > best_dist

\* line 104: is the far child searched
SearchSecondNearest(diff, best_dist) == diff * diff < best_dist

\* KDTree::nearestNeighbor
RECURSIVE nearestNeighbor(_, _, _, _)
nearestNeighbor(node, query, st, eig) ==
  IF node = Null \/ st.status # "ok" THEN st
  ELSE IF Len(query) # Len(node[1].point) /\ eig.assert
  THEN [st EXCEPT !.status = "abort", !.visited = Append(@, node[1].text)]
  ELSE LET n == node[1]
           st1 == VisitNearest(n, query, st, eig)
           axis == n.axis
           diff == Coef(query, axis + 1, eig) - n.point[axis + 1]
           first == IF diff < 0 THEN n.left ELSE n.right
           second == IF diff < 0 THEN n.right ELSE n.left
           st2 == nearestNeighbor(first, query, st1, eig)
       IN IF st2.status = "ok" /\ SearchSecondNearest(diff, st2.best_dist)
          THEN nearestNeighbor(second, query, st2, eig)
          ELSE st2

\* KDTree::nearest
nearest(tree, query, eig) ==
  LET st == nearestNeighbor(tree, query, SearchStart, eig)
  IN [status |-> st.status,
      result |-> IF st.status = "ok" THEN << <<Sqrt(st.best_dist), st.best_text>> >> ELSE <<>>,
      visited |-> st.visited]

\* ---------------------------------------------------------- k-nearest search
\* std::pair<double, std::string> operator<
PairLess(a, b) == a[1] < b[1] \/ (a[1] = b[1] /\ TextRank(a[2]) < TextRank(b[2]))

\* std::priority_queue<std::pair<double, std::string>>: kept as the sequence
\* of its entries from largest to smallest, so top() is the head
PqPush(pq, x) ==
  SelectSeq(pq, LAMBDA y : ~ PairLess(y, x)) \o <<x>> \o SelectSeq(pq, LAMBDA y : PairLess(y, x))
PqTop(pq) == Head(pq)
PqPop(pq) == Tail(pq)

\* pq.top() on an empty queue is undefined: the process dies there
\* (crash), or the read yields the value top and the run goes on; a
\* pq.pop() on the empty queue that may follow is taken to kill it.
HeapChoices == { [crash |-> TRUE, top |-> 0], [crash |-> FALSE, top |-> 0],
                 [crash |-> FALSE, top |-> DBL_MAX] }

\* only k <= 0 on a non-empty tree reaches such a read
HeapFor(k, tree) ==
  IF k <= 0 /\ tree # Null THEN HeapChoices ELSE { [crash |-> FALSE, top |-> 0] }

\* heaps logs the queue as each visit leaves it
KSearchStart == [pq |-> <<>>, visited |-> <<>>, status |-> "ok", emptyTop |-> FALSE,
                 heaps |-> <<>>]

\* (variant: line 122 with <= in place of <)
VisitKOrEqual(n, query, st, k, eig, ub) ==
  LET dist == squaredNorm(query, n.point, eig)
      st0 == [st EXCEPT !.visited = Append(@, n.text)]
      st1 == IF Len(st.pq) < k
             THEN [st0 EXCEPT !.pq = PqPush(@, <<dist, n.text>>)]
             ELSE IF st.pq = <<>>
             THEN IF ub.crash \/ dist <= ub.top
                  THEN [st0 EXCEPT !.emptyTop = TRUE, !.status = "crash"]
                  ELSE [st0 EXCEPT !.emptyTop = TRUE]
             ELSE IF dist <= PqTop(st.pq)[1]
             THEN [st0 EXCEPT !.pq = PqPush(PqPop(@), <<dist, n.text>>)]
             ELSE st0
  IN [st1 EXCEPT !.heaps = Append(@, st1.pq)]

\* lines 117-125: offer the node's item to the bounded queue
VisitK(n, query, st, k, eig, ub) ==
  LET dist == squaredNorm(query, n.point, eig)
      st0 == [st EXCEPT !.visited = Append(@, n.text)]
      st1 == IF Len(st.pq) < k
             THEN [st0 EXCEPT !.pq = PqPush(@, <<dist, n.text>>)]
             ELSE IF st.pq = <<>>
             THEN IF ub.crash \/ dist < ub.top
                  THEN [st0 EXCEPT !.emptyTop = TRUE, !.status = "crash"]
                  ELSE [st0 EXCEPT !.emptyTop = TRUE]
             ELSE IF dist < PqTop(st.pq)[1]
             THEN [st0 EXCEPT !.pq = PqPush(PqPop(@), <<dist, n.text>>)]
             ELSE st0
  IN [st1 EXCEPT !.heaps = Append(@, st1.pq)]

\* (variant: lines 138-139 without the test for a queue that is not full)
SearchSecondKFullOnly(diff, pq, k) ==
  LET largest_dist == IF pq = <<>> THEN DBL_MAX ELSE PqTop(pq)[1]
  IN diff * diff < largest_dist /\ Len(pq) >= k

\* lines 138-139: is the far child searched
SearchSecondK(diff, pq, k) ==
  LET largest_dist == IF pq = <<>> THEN DBL_MAX ELSE PqTop(pq)[1]
  IN diff * diff < largest_dist \/ Len(pq) < k

\* KDTree::kNearestNeighbors
RECURSIVE kNearestNeighbors(_, _, _, _, _, _)
kNearestNeighbors(node, query, st, k, eig, ub) ==
  IF node = Null \/ st.status # "ok" THEN st
  ELSE IF Len(query) # Len(node[1].point) /\ eig.assert
  THEN [st EXCEPT !.status = "abort", !.visited = Append(@, node[1].text)]
  ELSE LET n == node[1]
           st1 == VisitK(n, query, st, k, eig, ub)
           axis == n.axis
           diff == Coef(query, axis + 1, eig) - n.point[axis + 1]
           first == IF diff < 0 THEN n.left ELSE n.right
           second == IF diff < 0 THEN n.right ELSE n.left
           st2 == kNearestNeighbors(first, query, st1, k, eig, ub)
       IN IF st2.status = "ok" /\ SearchSecondK(diff, st2.pq, k)
          THEN kNearestNeighbors(second, query, st2, k, eig, ub)
          ELSE st2

\* lines 185-191: pop the queue into a vector, taking the root of each distance
RECURSIVE Drain(_)
Drain(pq) ==
  IF pq = <<>> THEN <<>>
  ELSE << <<Sqrt(PqTop(pq)[1]), PqTop(pq)[2]>> >> \o Drain(PqPop(pq))

\* (variant: line 194 left out)
NoReverse(s) == s

\* std::reverse
Reverse(s) == [i \in 1..Len(s) |-> s[Len(s) + 1 - i]]

\* KDTree::kNearest
kNearest(tree, query, k, eig, ub) ==
  LET st == kNearestNeighbors(tree, query, KSearchStart, k, eig, ub)
  IN [status |-> st.status,
      result |-> IF st.status = "ok" THEN Reverse(Drain(st.pq)) ELSE <<>>,
      visited |-> st.visited,
      emptyTop |-> st.emptyTop,
      heaps |-> st.heaps]

\* ------------------------------------------------------------ LinearSearch
\* (variant: line 219 with <= in place of <)
RECURSIVE LinearScanLastWins(_, _, _, _, _)
LinearScanLastWins(items, query, i, st, eig) ==
  IF i > Len(items) \/ st.status # "ok" THEN st
  ELSE IF Len(query) # Len(items[i].embedding) /\ eig.assert
  THEN [st EXCEPT !.status = "abort", !.visited = Append(@, items[i].text)]
  ELSE LET dist == norm(query, items[i].embedding, eig)
           st1 == IF dist <= st.best_dist
                  THEN [st EXCEPT !.best_dist = dist, !.best_text = items[i].text,
                                  !.visited = Append(@, items[i].text)]
                  ELSE [st EXCEPT !.visited = Append(@, items[i].text)]
       IN LinearScanLastWins(items, query, i + 1, st1, eig)

RECURSIVE LinearScan(_, _, _, _, _)
LinearScan(items, query, i, st, eig) ==
  IF i > Len(items) \/ st.status # "ok" THEN st
  ELSE IF Len(query) # Len(items[i].embedding) /\ eig.assert
  THEN [st EXCEPT !.status = "abort", !.visited = Append(@, items[i].text)]
  ELSE LET dist == norm(query, items[i].embedding, eig)
           st1 == IF dist < st.best_dist
                  THEN [st EXCEPT !.best_dist = dist, !.best_text = items[i].text,
                                  !.visited = Append(@, items[i].text)]
                  ELSE [st EXCEPT !.visited = Append(@, items[i].text)]
       IN LinearScan(items, query, i + 1, st1, eig)

\* LinearSearch::nearest
LinearNearest(items, query, eig) ==
  LET st == LinearScan(items, query, 1, SearchStart, eig)
  IN [status |-> st.status,
      result |-> IF st.status = "ok" THEN << <<st.best_dist, st.best_text>> >> ELSE <<>>,
      visited |-> st.visited]

\* ---------------------------------------------------- DeterministicEmbedder
\* texts are byte strings over space, 'A' and a byte above 127
EmbChars == {32, 65, 255}
EmbTexts == UNION { [1..n -> EmbChars] : n \in 0..MaxTextLen }
\* DeterministicEmbedder embedder(384): one dimension for every embedder
EmbDims == {EmbDim}

RECURSIVE Pow2(_)
Pow2(n) == IF n = 0 THEN 1 ELSE 2 * Pow2(n - 1)

\* size_t arithmetic wraps at WordMod
WordMod == Pow2(WordBits)
RngMod == Pow2(RngBits)

\* <cctype> in the "C" locale
isspace(c) == c \in (9..13) \cup {32}
tolower(c) == IF c \in 65..90 THEN c + 32 ELSE c
isalnum(c) == c \in (48..57) \cup (65..90) \cup (97..122)

\* while (iss >> token): the whitespace-separated words from byte i on,
\* cur being the word read so far
RECURSIVE Words(_, _, _)
Words(text, i, cur) ==
  IF i > Len(text) THEN (IF cur = <<>> THEN <<>> ELSE <<cur>>)
  ELSE IF isspace(text[i])
  THEN (IF cur = <<>> THEN <<>> ELSE <<cur>>) \o Words(text, i + 1, <<>>)
  ELSE Words(text, i + 1, Append(cur, text[i]))

\* std::transform(..., tolower) then erase(remove_if(..., !isalnum))
Lower(token) == [i \in 1..Len(token) |-> tolower(token[i])]
RemovePunct(token) == SelectSeq(token, isalnum)

tokenize(text) ==
  LET words == Words(text, 1, <<>>)
      cleaned == [i \in 1..Len(words) |-> RemovePunct(Lower(words[i]))]
  IN SelectSeq(cleaned, LAMBDA t : Len(t) > 0)

\* the bytes taken as (signed) char
RECURSIVE hashStringFromSigned(_, _, _)
hashStringFromSigned(str, i, hash) ==
  IF i > Len(str) THEN hash
  ELSE hashStringFromSigned(str, i + 1,
         (hash * 31 + (IF str[i] >= 128 THEN str[i] - 256 ELSE str[i]) + WordMod) % WordMod)

\* hash = hash * 31 + static_cast<unsigned char>(str[i])
RECURSIVE hashStringFrom(_, _, _)
hashStringFrom(str, i, hash) ==
  IF i > Len(str) THEN hash
  ELSE hashStringFrom(str, i + 1, (hash * 31 + str[i]) % WordMod)

hashString(str) == hashStringFrom(str, 1, 0)

\* std::mt19937 as a one-word generator: seeding keeps the low RngBits bits
\* of its argument, a step is a full-period congruence; one draw of
\* std::normal_distribution is read off the generator's word
Mt19937Seed(s) == s % RngMod
Mt19937Next(x) == (x * 5 + 3) % RngMod
NormalDraw(x) == (x % 7) - 3

\* the argument of the generator's constructor: seed + hashString(token)
SeedArg(token) == (seed + hashString(token)) % WordMod

\* one generator kept by the embedder and seeded at its first use only
RngStartMember(token, prev) ==
  IF prev < 0 THEN Mt19937Seed(SeedArg(token)) ELSE prev

\* std::mt19937 rng(...) is a local of getTokenEmbedding: every call starts
\* a new generator, wherever the previous call's generator (prev) stopped
RngStart(token, prev) == Mt19937Seed(SeedArg(token))

\* for (i < embedding_dim) vec(i) = dist(rng)
RECURSIVE Draws(_, _, _)
Draws(x, i, dim) ==
  IF i > dim THEN [vec |-> <<>>, rng |-> x]
  ELSE LET x1 == Mt19937Next(x)
           rest == Draws(x1, i + 1, dim)
       IN [vec |-> <<NormalDraw(x1)>> \o rest.vec, rng |-> rest.rng]

RECURSIVE SumSquares(_, _)
SumSquares(v, i) == IF i > Len(v) THEN 0 ELSE v[i] * v[i] + SumSquares(v, i + 1)

\* v.norm(), in units of 1 / SqrtScale
VecNorm(v) == Sqrt(SumSquares(v, 1))

\* division of doubles, rounded towards zero at the fixed-point resolution
Quot(a, b) == IF a >= 0 THEN a \div b ELSE 0 - ((0 - a) \div b)

\* v / n, coordinates in units of 1 / SqrtScale
Scaled(v, n) == [i \in 1..Len(v) |-> Quot(v[i] * SqrtScale * SqrtScale, n)]

\* Eigen's normalize(): leaves a zero vector alone
Normalize(v) == IF VecNorm(v) > 0 THEN Scaled(v, VecNorm(v)) ELSE v

getTokenEmbedding(token, dim, prev) ==
  LET d == Draws(RngStart(token, prev), 1, dim)
  IN [vec |-> Normalize(d.vec), rng |-> d.rng, seed |-> SeedArg(token)]

\* for (token : tokens) result += getTokenEmbedding(token)
RECURSIVE SumTokens(_, _, _, _)
SumTokens(tokens, i, dim, st) ==
  IF i > Len(tokens) THEN st
  ELSE LET te == getTokenEmbedding(tokens[i], dim, st.rng)
       IN SumTokens(tokens, i + 1, dim,
            [vec |-> [j \in 1..dim |-> st.vec[j] + te.vec[j]],
             rng |-> te.rng,
             seeds |-> Append(st.seeds, <<tokens[i], te.seed>>)])

getEmbedding(text, dim, prev) ==
  LET tokens == tokenize(text)
  IN IF Len(tokens) = 0
     THEN LET te == getTokenEmbedding(text, dim, prev)
          IN [vec |-> te.vec, rng |-> te.rng, seeds |-> << <<text, te.seed>> >>]
     ELSE LET st == SumTokens(tokens, 1, dim,
                      [vec |-> [j \in 1..dim |-> 0], rng |-> prev, seeds |-> <<>>])
          IN [st EXCEPT !.vec = IF VecNorm(st.vec) > 0
                                THEN Scaled(st.vec, VecNorm(st.vec)) ELSE st.vec]

\* ------------------------------------------------------------- database.h
\* A file is a sequence of bytes.  A double is modelled by an integer that
\* stands for its bit pattern; ints and doubles are written as their object
\* representation, little-endian two's complement.
SnapChars == {0, 65}
SnapTexts == UNION { [1..n -> SnapChars] : n \in 0..MaxSnapText }
SnapDoubles == {-1, 258}
SnapEmbeddings == UNION { [1..d -> SnapDoubles] : d \in 1..MaxSnapDim }
SnapItems == { DataItem(t, e) : t \in SnapTexts, e \in SnapEmbeddings }
SnapDatabases == UNION { [1..n -> SnapItems] : n \in 0..MaxSnapN }

\* processed_lines: max_lines of the caller, -1 when no limit was given
SnapLines == {-1, 0, 300}

\* write(reinterpret_cast<const char*>(&n), len)
RECURSIVE ObjectBytes(_, _)
ObjectBytes(n, len) ==
  IF len = 0 THEN <<>>
  ELSE <<n % 256>> \o ObjectBytes(n \div 256, len - 1)

\* read(reinterpret_cast<char*>(&n), len) after pos bytes of the file
RECURSIVE ObjectValue(_, _, _)
ObjectValue(file, pos, len) ==
  IF len = 1
  THEN (IF file[pos + 1] >= 128 THEN file[pos + 1] - 256 ELSE file[pos + 1])
  ELSE file[pos + 1] + 256 * ObjectValue(file, pos + 1, len - 1)

\* item.embedding(j) past the end of a shorter embedding is undefined
SaveEigenFor(database) ==
  IF \E i \in 1..Len(database) :
       Len(database[i].embedding) < Len(database[1].embedding)
  THEN EigenChoices ELSE { NoEig }

\* the coefficients written last to first
RECURSIVE WriteEmbeddingReversed(_, _, _, _)
WriteEmbeddingReversed(embedding, j, dim, eig) ==
  IF j > dim THEN <<>>
  ELSE ObjectBytes(Coef(embedding, dim + 1 - j, eig), SizeofDouble)
         \o WriteEmbeddingReversed(embedding, j + 1, dim, eig)

\* for (j < embedding_dim) write(item.embedding(j))
RECURSIVE WriteEmbedding(_, _, _, _)
WriteEmbedding(embedding, j, dim, eig) ==
  IF j > dim THEN <<>>
  ELSE ObjectBytes(Coef(embedding, j, eig), SizeofDouble)
         \o WriteEmbedding(embedding, j + 1, dim, eig)

\* text_length, the text's bytes, then embedding_dim doubles
WriteItem(item, dim, eig) ==
  ObjectBytes(Len(item.text), SizeofInt) \o item.text
    \o WriteEmbedding(item.embedding, 1, dim, eig)

\* for (i < db_size): st is the status and the bytes written so far
RECURSIVE WriteItems(_, _, _, _, _)
WriteItems(database, i, dim, eig, st) ==
  IF i > Len(database) THEN st
  ELSE IF Len(database[i].embedding) < dim /\ eig.assert
  THEN [status |-> "abort",
        file |-> st.file \o WriteItem(database[i], Len(database[i].embedding), eig)]
  ELSE WriteItems(database, i + 1, dim, eig,
         [st EXCEPT !.file = @ \o WriteItem(database[i], dim, eig)])

\* saveDatabase once the file is open
saveDatabase(database, processed_lines, eig) ==
  LET db_size == Len(database)
      embedding_dim_ == IF db_size = 0 THEN 0 ELSE Len(database[1].embedding)
      header == ObjectBytes(processed_lines, SizeofInt)
                  \o ObjectBytes(db_size, SizeofInt)
                  \o ObjectBytes(embedding_dim_, SizeofInt)
  IN WriteItems(database, 1, embedding_dim_, eig, [status |-> "ok", file |-> header])

\* for (j < embedding_dim) read(value); item.embedding(j) = value
ReadEmbedding(file, pos, dim) ==
  [j \in 1..dim |-> ObjectValue(file, pos + (j - 1) * SizeofDouble, SizeofDouble)]

\* for (i < db_size): pos bytes of the file are read, i items are loaded
RECURSIVE ReadItems(_, _, _, _, _, _)
ReadItems(file, pos, i, db_size, dim, database) ==
  IF i >= db_size THEN database
  ELSE LET text_length == ObjectValue(file, pos, SizeofInt)
           text == SubSeq(file, pos + SizeofInt + 1, pos + SizeofInt + text_length)
           epos == pos + SizeofInt + text_length
       IN ReadItems(file, epos + dim * SizeofDouble, i + 1, db_size, dim,
                    Append(database, DataItem(text, ReadEmbedding(file, epos, dim))))

\* loadDatabase once the file is open
loadDatabase(file) ==
  LET db_size == ObjectValue(file, SizeofInt, SizeofInt)
      embedding_dim_ == ObjectValue(file, 2 * SizeofInt, SizeofInt)
  IN ReadItems(file, 3 * SizeofInt, 0, db_size, embedding_dim_, <<>>)

\* --------------------------------------------------------------- variables
VARIABLES dataset,     \* the caller's std::vector<DataItem>
          pc,          \* "start", "tree" (KDTree built), "ready" (both built)
          root, leaf_size, dimensions, node_count,   \* KDTree fields
          data,        \* LinearSearch::data
          last,        \* the last query call and what it returned
          memo         \* an earlier call the caller kept the result of

\* DeterministicEmbedder: the embedder has no mutable field; emb_rng is the
\* local generator of getTokenEmbedding as the last call left it
VARIABLES embedding_dim,   \* DeterministicEmbedder::embedding_dim
          emb_rng,
          emb_last,        \* the last getEmbedding call and what it returned
          emb_memo         \* an earlier call the caller kept the vector of

embvars == <<embedding_dim, emb_rng, emb_last, emb_memo>>

\* database.h: the database of main and the binary file it is saved to
VARIABLES snap_db,     \* the caller's database
          snap_file,   \* the file: whether it exists, its bytes
          snap_save,   \* the last saveDatabase call and what it returned
          snap_load,   \* the last loadDatabase call and what it returned
          snap_pc      \* "run", or "abort" after an eigen_assert

snapvars == <<snap_db, snap_file, snap_save, snap_load, snap_pc>>

\* the construction of a KDTree taken one buildTree call at a time
VARIABLES build_stack,   \* the buildTree calls still to run, the next one first
          build_data,    \* data_copy, sorted in place by the calls
          build_nodes    \* the nodes created so far, each at its path from the root

buildvars == <<build_stack, build_data, build_nodes>>

vars == <<dataset, pc, root, leaf_size, dimensions, node_count, data, last, memo,
          embedding_dim, emb_rng, emb_last, emb_memo,
          snap_db, snap_file, snap_save, snap_load, snap_pc,
          build_stack, build_data, build_nodes>>

NoCall == [op |-> "none", query |-> <<>>, k |-> 0, status |-> "ok",
           result |-> <<>>, visited |-> <<>>, emptyTop |-> FALSE, heaps |-> <<>>]

\* no getEmbedding call yet
NoEmbed == [text |-> <<>>, called |-> FALSE, dim |-> 0, fresh |-> FALSE,
            seeds |-> <<>>, vec |-> <<>>]

\* DeterministicEmbedder embedder(dim)
EmbedInit ==
  /\ embedding_dim = EmbDim
  /\ emb_rng = -1
  /\ emb_last = NoEmbed
  /\ emb_memo = NoEmbed

NoFile == [exists |-> FALSE, bytes |-> <<>>, lines |-> 0]
NoSave == [called |-> FALSE, ret |-> FALSE]
NoLoad == [called |-> FALSE, opened |-> FALSE, db |-> <<>>]

\* nothing saved or loaded yet
SnapIdle ==
  /\ snap_file = NoFile
  /\ snap_save = NoSave
  /\ snap_load = NoLoad
  /\ snap_pc = "run"

\* no construction under way
BuildIdle ==
  /\ build_stack = <<>>
  /\ build_data = <<>>
  /\ build_nodes = {}

Init ==
  /\ memo = NoCall
  /\ EmbedInit
  /\ snap_db = <<>>
  /\ SnapIdle
  /\ BuildIdle
  /\ dataset \in Datasets
  /\ pc = "start"
  /\ root = Null
  /\ leaf_size = 0
  /\ dimensions = 0
  /\ node_count = 0
  /\ data = <<>>
  /\ last = NoCall

\* KDTree::KDTree(data, leaf_size)
ConstructKDTree(ls) ==
  /\ pc = "start"
  /\ pc' = "tree"
  /\ leaf_size' = ls
  /\ IF dataset = <<>>
     THEN /\ dimensions' = 0
          /\ root' = Null
     ELSE /\ dimensions' = Len(dataset[1].embedding)
          /\ root' \in buildTree(dataset, 0, 0, Len(dataset), ls, Len(dataset[1].embedding))
  /\ node_count' = NodeCount(root')
  /\ UNCHANGED <<dataset, data, last, memo, embvars, snapvars, buildvars>>

\* LinearSearch::LinearSearch(items)
ConstructLinear ==
  /\ pc = "tree"
  /\ pc' = "ready"
  /\ data' = dataset
  /\ UNCHANGED <<dataset, root, leaf_size, dimensions, node_count, last, memo, embvars, snapvars, buildvars>>

\* tree.nearest(query)
Nearest(q, eig) ==
  /\ pc = "ready"
  /\ last.op = "none"
  /\ LET r == nearest(root, q, eig)
     IN last' = [op |-> "nearest", query |-> q, k |-> 0, status |-> r.status,
                 result |-> r.result, visited |-> r.visited, emptyTop |-> FALSE,
                 heaps |-> <<>>]
  /\ UNCHANGED <<dataset, pc, root, leaf_size, dimensions, node_count, data, memo, embvars, snapvars, buildvars>>

\* linear.nearest(query)
LinearQuery(q, eig) ==
  /\ pc = "ready"
  /\ last.op = "none"
  /\ LET r == LinearNearest(data, q, eig)
     IN last' = [op |-> "linear", query |-> q, k |-> 0, status |-> r.status,
                 result |-> r.result, visited |-> r.visited, emptyTop |-> FALSE,
                 heaps |-> <<>>]
  /\ UNCHANGED <<dataset, pc, root, leaf_size, dimensions, node_count, data, memo, embvars, snapvars, buildvars>>

\* tree.kNearest(query, k)
KNearest(q, k, eig, ub) ==
  /\ pc = "ready"
  /\ last.op = "none"
  /\ LET r == kNearest(root, q, k, eig, ub)
     IN last' = [op |-> "kNearest", query |-> q, k |-> k, status |-> r.status,
                 result |-> r.result, visited |-> r.visited, emptyTop |-> r.emptyTop,
                 heaps |-> r.heaps]
  /\ UNCHANGED <<dataset, pc, root, leaf_size, dimensions, node_count, data, memo, embvars, snapvars, buildvars>>

\* the caller's result goes out of scope before its next query
Discard ==
  /\ last.op # "none"
  /\ last.status = "ok"
  /\ last' = NoCall
  /\ UNCHANGED <<dataset, pc, root, leaf_size, dimensions, node_count, data, memo, embvars, snapvars, buildvars>>

Next ==
  \/ \E ls \in LeafSizes : ConstructKDTree(ls)
  \/ ConstructLinear
  \/ \E q \in Queries : \E eig \in EigenFor(q, dimensions) : Nearest(q, eig)
  \/ \E q \in Queries : \E eig \in EigenFor(q, dimensions) : LinearQuery(q, eig)
  \/ \E q \in Queries, k \in Ks :
       \E eig \in EigenFor(q, dimensions), ub \in HeapFor(k, root) : KNearest(q, k, eig, ub)
  \/ Discard

Spec == Init /\ [][Next]_vars

\* the caller keeps one result of the tree while it goes on querying
Remember ==
  /\ pc = "ready"
  /\ last.op \in {"nearest", "kNearest"}
  /\ last.status = "ok"
  /\ memo = NoCall
  /\ memo' = last
  /\ last' = NoCall
  /\ UNCHANGED <<dataset, pc, root, leaf_size, dimensions, node_count, data, embvars, snapvars, buildvars>>

InitRepeat == Init /\ Len(dataset) <= MaxRepeatN

NextRepeat == Next \/ Remember

SpecRepeat == InitRepeat /\ [][NextRepeat]_vars

\* ------------------------------------------------------ embedder actions
kdvars == <<dataset, pc, root, leaf_size, dimensions, node_count, data, last, memo,
           build_stack, build_data, build_nodes>>

GetEmbedding(text) ==
  /\ LET e == getEmbedding(text, embedding_dim, emb_rng)
     IN /\ emb_rng' = e.rng
        /\ emb_last' = [text |-> text, called |-> TRUE, dim |-> embedding_dim,
                        fresh |-> ~emb_last.called, seeds |-> e.seeds, vec |-> e.vec]
  /\ UNCHANGED <<kdvars, snapvars, embedding_dim, emb_memo>>

\* the caller keeps the vector while it goes on embedding other texts
EmbRemember ==
  /\ emb_last.called
  /\ emb_memo' = emb_last
  /\ UNCHANGED <<kdvars, snapvars, embedding_dim, emb_rng, emb_last>>

\* a fresh DeterministicEmbedder(dim)
NewEmbedder(dim) ==
  /\ embedding_dim' = dim
  /\ emb_rng' = -1
  /\ emb_last' = NoEmbed
  /\ UNCHANGED <<kdvars, snapvars, emb_memo>>

InitEmbed == Init /\ dataset = <<>>

NextEmbed ==
  \/ \E text \in EmbTexts : GetEmbedding(text)
  \/ EmbRemember
  \/ \E dim \in EmbDims : NewEmbedder(dim)

SpecEmbed == InitEmbed /\ [][NextEmbed]_vars

\* ------------------------------------------------------ snapshot actions
\* saveDatabase(database, filename, processed_lines); opens: the ofstream
\* could be opened, and then the file holds what was written
SaveDatabase(processed_lines, opens, eig) ==
  /\ snap_pc = "run"
  /\ IF ~opens
     THEN /\ snap_save' = [called |-> TRUE, ret |-> FALSE]
          /\ UNCHANGED <<snap_file, snap_pc>>
     ELSE LET r == saveDatabase(snap_db, processed_lines, eig)
          IN /\ snap_file' = [exists |-> TRUE, bytes |-> r.file, lines |-> processed_lines]
             /\ snap_save' = [called |-> TRUE, ret |-> r.status = "ok"]
             /\ snap_pc' = IF r.status = "ok" THEN "run" ELSE "abort"
  /\ UNCHANGED <<kdvars, embvars, snap_db, snap_load>>

\* loadDatabase(filename); opens: the ifstream could be opened
LoadDatabase(opens) ==
  /\ snap_pc = "run"
  /\ snap_load' = IF snap_file.exists /\ opens
                  THEN [called |-> TRUE, opened |-> TRUE, db |-> loadDatabase(snap_file.bytes)]
                  ELSE [called |-> TRUE, opened |-> FALSE, db |-> <<>>]
  /\ UNCHANGED <<kdvars, embvars, snap_db, snap_file, snap_save, snap_pc>>

KDIdle ==
  /\ dataset = <<>> /\ pc = "start" /\ root = Null /\ leaf_size = 0
  /\ dimensions = 0 /\ node_count = 0 /\ data = <<>>
  /\ last = NoCall /\ memo = NoCall
  /\ BuildIdle

InitSnap == KDIdle /\ EmbedInit /\ SnapIdle /\ snap_db \in SnapDatabases

NextSnap ==
  \/ \E processed_lines \in SnapLines, opens \in BOOLEAN :
       \E eig \in SaveEigenFor(snap_db) : SaveDatabase(processed_lines, opens, eig)
  \/ \E opens \in BOOLEAN : LoadDatabase(opens)

SpecSnap == InitSnap /\ [][NextSnap]_vars

\* --------------------------------------------------- construction by calls
\* leaf_size is any int of the caller
BuildLeafSizes == (-1)..MaxLeaf

\* one buildTree call: its arguments and the place of its result in the tree
Call(depth, start, end, path) ==
  [depth |-> depth, start |-> start, end |-> end, path |-> path]

\* the right call taking the range from mid on
ChildrenFromMid(f, mid) ==
  << Call(f.depth + 1, f.start, mid, Append(f.path, 0)),
     Call(f.depth + 1, mid, f.end, Append(f.path, 1)) >>

\* node->left = buildTree(depth + 1, start, mid);
\* node->right = buildTree(depth + 1, mid + 1, end)
Children(f, mid) ==
  << Call(f.depth + 1, f.start, mid, Append(f.path, 0)),
     Call(f.depth + 1, mid + 1, f.end, Append(f.path, 1)) >>

\* the tree of the nodes created, from the node at path down
RECURSIVE Assemble(_, _)
Assemble(nodes, path) ==
  IF \A n \in nodes : n.path # path THEN Null
  ELSE LET n == CHOOSE m \in nodes : m.path = path
       IN Node(n.point, n.text, n.axis,
               Assemble(nodes, Append(path, 0)), Assemble(nodes, Append(path, 1)))

\* KDTree::KDTree(data, leaf_size) up to the first buildTree call
BeginBuild(ls) ==
  /\ pc = "start"
  /\ leaf_size' = ls
  /\ node_count' = 0
  /\ root' = Null
  /\ build_nodes' = {}
  /\ IF dataset = <<>>
     THEN /\ dimensions' = 0
          /\ pc' = "tree"
          /\ UNCHANGED <<build_stack, build_data>>
     ELSE /\ dimensions' = Len(dataset[1].embedding)
          /\ pc' = "building"
          /\ build_data' = dataset
          /\ build_stack' = << Call(0, 0, Len(dataset), <<>>) >>
  /\ UNCHANGED <<dataset, data, last, memo, embvars, snapvars>>

\* the tree is complete when no call is left
BuildReturn(stack, nodes) ==
  /\ build_stack' = stack
  /\ build_nodes' = nodes
  /\ node_count' = Cardinality(nodes)
  /\ IF stack = <<>>
     THEN pc' = "tree" /\ root' = Assemble(nodes, <<>>)
     ELSE pc' = "building" /\ root' = Null

\* one call of KDTree::buildTree, its recursive calls left on the stack
BuildStep ==
  /\ pc = "building"
  /\ LET f == Head(build_stack)
     IN IF f.start >= f.end
        THEN /\ BuildReturn(Tail(build_stack), build_nodes)
             /\ UNCHANGED build_data
        ELSE IF f.end - f.start <= leaf_size
        THEN /\ BuildReturn(Tail(build_stack),
                  build_nodes \cup { [path |-> f.path, axis |-> 0,
                                      point |-> build_data[f.start + 1].embedding,
                                      text |-> build_data[f.start + 1].text] })
             /\ UNCHANGED build_data
        ELSE LET axis == f.depth % dimensions
                 mid == f.start + (f.end - f.start) \div 2
             IN \E s \in StdSort(build_data, f.start, f.end, axis) :
                  /\ build_data' = s
                  /\ BuildReturn(Children(f, mid) \o Tail(build_stack),
                       build_nodes \cup { [path |-> f.path, axis |-> axis,
                                           point |-> s[mid + 1].embedding,
                                           text |-> s[mid + 1].text] })
  /\ UNCHANGED <<dataset, leaf_size, dimensions, data, last, memo, embvars, snapvars>>

InitBuild == Init /\ Len(dataset) <= MaxBuildN

NextBuild ==
  \/ \E ls \in BuildLeafSizes : BeginBuild(ls)
  \/ BuildStep
  \/ ConstructLinear
  \/ \E q \in Queries : \E eig \in EigenFor(q, dimensions) : Nearest(q, eig)
  \/ \E q \in Queries, k \in Ks :
       \E eig \in EigenFor(q, dimensions), ub \in HeapFor(k, root) : KNearest(q, k, eig, ub)
  \/ Discard

\* the constructor runs its calls one after another until none is left
SpecBuild == InitBuild /\ [][NextBuild]_vars /\ WF_vars(BuildStep)

\* ------------------------------------------------------------- properties
Good(q) == Len(q) = dimensions
Dists(res) == [i \in 1..Len(res) |-> res[i][1]]
TextsOf(res) == [i \in 1..Len(res) |-> res[i][2]]
Min2(a, b) == IF a < b THEN a ELSE b

\* the true distances from q to every item of the dataset, ascending
ScanDists(q) ==
  SortSeq([i \in 1..Len(dataset) |-> norm(q, dataset[i].embedding, NoEig)],
          LAMBDA a, b : a < b)

\* C1: with leaf_size 1 and a non-empty dataset, KDTree::nearest returns the
\* text LinearSearch::nearest returns, or else the same distance; the
\* distance is the minimum over the whole dataset.
OracleAgreement ==
  (last.op = "nearest" /\ leaf_size = 1 /\ dataset # <<>> /\ Good(last.query))
    => LET lin == LinearNearest(data, last.query, NoEig).result[1]
           kd == last.result[1]
       IN /\ last.status = "ok"
          /\ kd[2] = lin[2] \/ kd[1] = lin[1]
          /\ \A i \in 1..Len(dataset) : kd[1] <= norm(last.query, dataset[i].embedding, NoEig)
          /\ \E i \in 1..Len(dataset) : kd[1] = norm(last.query, dataset[i].embedding, NoEig)

\* C1 witness: a full dataset where the two searches name different items
OracleAgreementWitness ==
  /\ last.op = "nearest" /\ leaf_size = 1 /\ Len(dataset) = MaxN /\ Good(last.query)
  /\ last.result[1][2] # LinearNearest(data, last.query, NoEig).result[1][2]
  /\ last.result[1][1] > 0
  /\ Len(last.visited) < MaxN

\* the items stored in the nodes reachable from a node, in in-order
RECURSIVE Walk(_)
Walk(node) ==
  IF node = Null THEN <<>>
  ELSE Walk(node[1].left) \o << DataItem(node[1].text, node[1].point) >> \o Walk(node[1].right)

Occurrences(x, seq) == Cardinality({ i \in 1..Len(seq) : seq[i] = x })

SameItems(a, b) ==
  /\ Len(a) = Len(b)
  /\ \A i \in 1..Len(a) : Occurrences(a[i], a) = Occurrences(a[i], b)

\* C2: after construction with any leaf_size >= 1 the items stored in the
\* tree are exactly the items of the dataset, each once.
Containment ==
  (pc # "start" /\ leaf_size >= 1) => SameItems(Walk(root), dataset)

\* every tree the build can produce for this dataset with a given leaf_size
TreesFor(ls) ==
  IF dataset = <<>> THEN { Null }
  ELSE buildTree(dataset, 0, 0, Len(dataset), ls, Len(dataset[1].embedding))

\* C3: a query returns the same distances whatever leaf_size >= 1 the tree
\* was built with (the weakest reading of "the same result": texts may
\* differ among items at equal distance).
LeafSizeInvariance ==
  /\ (last.op = "nearest" /\ last.status = "ok" /\ Good(last.query))
       => \A ls \in LeafSizes : \A t \in TreesFor(ls) :
            Dists(nearest(t, last.query, NoEig).result) = Dists(last.result)
  /\ (last.op = "kNearest" /\ last.status = "ok" /\ Good(last.query) /\ last.k >= 1)
       => \A ls \in LeafSizes : \A t \in TreesFor(ls) :
            Dists(kNearest(t, last.query, last.k, NoEig, [crash |-> FALSE, top |-> 0]).result)
              = Dists(last.result)

\* C4: nearest at the vector of a stored item returns distance 0 and the
\* text of an item with that vector, for any leaf_size >= 1.
SelfRetrieval ==
  (/\ last.op = "nearest" /\ leaf_size >= 1
   /\ \E i \in 1..Len(dataset) : dataset[i].embedding = last.query)
    => /\ last.status = "ok"
       /\ last.result[1][1] = 0
       /\ \E j \in 1..Len(dataset) :
            dataset[j].text = last.result[1][2] /\ dataset[j].embedding = last.query

\* C5: with leaf_size 1 and 1 <= k <= n, kNearest returns the k smallest
\* distances of the dataset, each with the text of a distinct item at that
\* distance.
KOracleAgreement ==
  (/\ last.op = "kNearest" /\ leaf_size = 1 /\ Good(last.query)
   /\ 1 <= last.k /\ last.k <= Len(dataset))
    => /\ last.status = "ok"
       /\ SortSeq(Dists(last.result), LAMBDA a, b : a < b)
            = SubSeq(ScanDists(last.query), 1, last.k)
       /\ \A i \in 1..Len(last.result) :
            \E j \in 1..Len(dataset) :
              /\ dataset[j].text = last.result[i][2]
              /\ norm(last.query, dataset[j].embedding, NoEig) = last.result[i][1]
       /\ \A i, j \in 1..Len(last.result) : i # j => last.result[i][2] # last.result[j][2]

\* C5 witness: k below n on a full dataset, a node pruned, an item at the
\* k-th distance left out
KOracleAgreementWitness ==
  /\ last.op = "kNearest" /\ leaf_size = 1 /\ Good(last.query)
  /\ Len(dataset) = MaxN /\ last.k = 2
  /\ Len(last.visited) < MaxN
  /\ ScanDists(last.query)[2] = ScanDists(last.query)[3]
  /\ ScanDists(last.query)[1] < ScanDists(last.query)[2]

\* C6: the sequence kNearest returns has non-decreasing distances.
Ordering ==
  last.op = "kNearest"
    => \A i \in 1..(Len(last.result) - 1) : last.result[i][1] <= last.result[i + 1][1]

\* C6 witness: three results, not all at one distance
OrderingWitness ==
  /\ last.op = "kNearest" /\ Len(last.result) = 3
  /\ last.result[1][1] < last.result[3][1]

\* C7: kNearest with k >= 1 on a tree built from n items returns min(k, n)
\* results.
ResultLength ==
  (last.op = "kNearest" /\ last.k >= 1 /\ (dataset = <<>> \/ Good(last.query)))
    => last.status = "ok" /\ Len(last.result) = Min2(last.k, Len(dataset))

\* C8: kNearest with k = 0 returns the empty sequence and never reads the
\* top of an empty heap.
KZeroEmpty ==
  (last.op = "kNearest" /\ last.k = 0)
    => last.status = "ok" /\ last.result = <<>> /\ ~ last.emptyTop

\* C9: nearest on the tree of the empty dataset fails with EmptyIndex and
\* returns no (distance, text).
EmptyIndexError ==
  (last.op = "nearest" /\ dataset = <<>>)
    => last.status = "EmptyIndex" /\ last.result = <<>>

\* C10: a query whose dimension differs from the index's is rejected with
\* DimensionMismatch before any node is visited.
DimensionMismatchError ==
  (last.op \in {"nearest", "kNearest"} /\ dataset # <<>> /\ ~ Good(last.query))
    => last.status = "DimensionMismatch" /\ last.visited = <<>>

\* C11: kNearest with a negative k fails with InvalidK: it returns no
\* sequence and never reads the top of an empty heap.
InvalidKError ==
  (last.op = "kNearest" /\ last.k < 0)
    => last.status = "InvalidK" /\ last.result = <<>> /\ ~ last.emptyTop

\* C13: LinearSearch::nearest scans every item and returns the minimum
\* distance, with the text of the first item of the dataset at that distance.
LinearFirstMinimum ==
  (last.op = "linear" /\ Good(last.query) /\ data # <<>>)
    => LET d(i) == norm(last.query, data[i].embedding, NoEig)
           j == CHOOSE j \in 1..Len(data) :
                  /\ \A i \in 1..Len(data) : d(j) <= d(i)
                  /\ \A i \in 1..(j - 1) : d(i) > d(j)
       IN /\ last.status = "ok"
          /\ last.visited = [i \in 1..Len(data) |-> data[i].text]
          /\ last.result = << <<d(j), data[j].text>> >>

\* C13 witness: the minimum is attained twice, first at an item that is not
\* the first of the dataset
LinearFirstMinimumWitness ==
  /\ last.op = "linear" /\ Good(last.query) /\ Len(data) = MaxN
  /\ last.result[1][2] = data[2].text
  /\ \E i \in 3..Len(data) :
       norm(last.query, data[i].embedding, NoEig) = last.result[1][1]

\* the nodes of a tree, each as the Node* that points to it
RECURSIVE Subtrees(_)
Subtrees(node) ==
  IF node = Null THEN {}
  ELSE { node } \cup Subtrees(node[1].left) \cup Subtrees(node[1].right)

Range(seq) == { seq[i] : i \in 1..Len(seq) }

\* C16: for every node with axis a and value s = its own coordinate on a,
\* the items of its left subtree have coordinate a <= s and those of its
\* right subtree have coordinate a >= s.
SplitPlane ==
  pc # "start"
    => \A t \in Subtrees(root) :
         LET a == t[1].axis + 1
             s == t[1].point[a]
         IN /\ \A x \in Range(Walk(t[1].left)) : x.embedding[a] <= s
            /\ \A x \in Range(Walk(t[1].right)) : x.embedding[a] >= s

\* C16 witness: a node splitting on the second axis with a strictly smaller
\* item to its left, under a root with an equal coordinate on each side
SplitPlaneWitness ==
  /\ pc # "start" /\ leaf_size = 1 /\ root # Null
  /\ \E x \in Range(Walk(root[1].left)) : x.embedding[1] = root[1].point[1]
  /\ \E x \in Range(Walk(root[1].right)) : x.embedding[1] = root[1].point[1]
  /\ \E t \in Subtrees(root) :
       /\ t[1].axis = 1
       /\ \E x \in Range(Walk(t[1].left)) : x.embedding[2] < t[1].point[2]

\* the tree of a range of n positions split at depth d: a leaf up to
\* leaf_size positions, else axis d mod D, floor(n/2) positions to the
\* left and the remaining n - 1 - floor(n/2) to the right
RECURSIVE Shape(_, _, _)
Shape(node, n, d) ==
  IF n <= 0 THEN node = Null
  ELSE /\ node # Null
       /\ IF n <= leaf_size
          THEN node[1].left = Null /\ node[1].right = Null
          ELSE /\ node[1].axis = d % dimensions
               /\ Shape(node[1].left, n \div 2, d + 1)
               /\ Shape(node[1].right, n - 1 - (n \div 2), d + 1)

\* the item of a node is at position floor(n/2) of its range ordered by the
\* node's axis, and in neither subtree
MedianAt(t) ==
  LET a == t[1].axis + 1
      s == t[1].point[a]
      items == Walk(t)
      n == Len(items)
      below == Cardinality({ i \in 1..n : items[i].embedding[a] < s })
      upto == Cardinality({ i \in 1..n : items[i].embedding[a] <= s })
  IN /\ below <= n \div 2
     /\ upto >= (n \div 2) + 1
     /\ NodeCount(t[1].left) = n \div 2
     /\ NodeCount(t[1].right) = n - 1 - (n \div 2)
     /\ \A x \in Range(Walk(t[1].left)) \cup Range(Walk(t[1].right)) : x.text # t[1].text

\* C19: a split of [lo, hi) at depth d uses axis d mod D, keeps the item at
\* mid = lo + (hi - lo) / 2 of the ordered range at the node and recurses on
\* [lo, mid) and [mid+1, hi) at depth d + 1.
MedianSplit ==
  pc # "start"
    => /\ Shape(root, Len(dataset), 0)
       /\ leaf_size = 1 => \A t \in Subtrees(root) : MedianAt(t)

\* C19 witness: a full dataset whose tree has a node splitting on the second
\* axis, with distinct coordinates on the root's axis
MedianSplitWitness ==
  /\ pc # "start" /\ leaf_size = 1 /\ Len(dataset) = MaxN
  /\ \E t \in Subtrees(root) : t[1].axis = 1 /\ t[1].left # Null
  /\ \E x \in Range(Walk(root[1].left)) : x.embedding[1] < root[1].point[1]

\* the range ordered by the axis coordinate, equal coordinates by original
\* dataset index (item i carries Texts[i])
SortByIndex(d, start, end, axis) ==
  CHOOSE s \in StdSort(d, start, end, axis) :
    \A i \in (start + 1)..(end - 1) :
      s[i].embedding[axis + 1] = s[i + 1].embedding[axis + 1]
        => TextRank(s[i].text) < TextRank(s[i + 1].text)

RECURSIVE TreeByIndex(_, _, _, _)
TreeByIndex(d, depth, start, end) ==
  IF start >= end THEN Null
  ELSE IF end - start <= leaf_size
  THEN Node(d[start + 1].embedding, d[start + 1].text, 0, Null, Null)
  ELSE LET axis == depth % dimensions
           mid == start + (end - start) \div 2
           s == SortByIndex(d, start, end, axis)
       IN Node(s[mid + 1].embedding, s[mid + 1].text, axis,
               TreeByIndex(s, depth + 1, start, mid),
               TreeByIndex(s, depth + 1, mid + 1, end))

\* C20: items with equal coordinates on the split axis are ordered by
\* original dataset index, so the dataset determines the tree.
TieBreakByIndex ==
  pc # "start" => root = TreeByIndex(dataset, 0, 0, Len(dataset))

\* position of a node (named by its text) in the visit log of the last call
Pos(t) == CHOOSE i \in 1..Len(last.visited) : last.visited[i] = t
Seen(t) == \E i \in 1..Len(last.visited) : last.visited[i] = t
SeenIn(node) == { Pos(x[1].text) : x \in { y \in Subtrees(node) : Seen(y[1].text) } }
MinSet(S) == CHOOSE m \in S : \A x \in S : m <= x
MaxSet(S) == CHOOSE m \in S : \A x \in S : m >= x

\* the best squared distance once the first p visits are done
BestAt(p) ==
  MinSet({ DBL_MAX } \cup { squaredNorm(last.query, x[1].point, NoEig)
                            : x \in { y \in Subtrees(root) :
                                        Seen(y[1].text) /\ Pos(y[1].text) <= p } })

\* the order of visits at one visited node
NearestOrderAt(t) ==
  LET n == t[1]
      diff == last.query[n.axis + 1] - n.point[n.axis + 1]
      near == IF diff < 0 THEN n.left ELSE n.right
      far == IF diff < 0 THEN n.right ELSE n.left
      here == Pos(n.text)
      nearEnd == IF SeenIn(near) = {} THEN here ELSE MaxSet(SeenIn(near))
  IN /\ \A p \in SeenIn(near) \cup SeenIn(far) : here < p
     /\ near # Null => Seen(near[1].text) /\ Pos(near[1].text) = here + 1
     /\ \A p \in SeenIn(near), p2 \in SeenIn(far) : p < p2
     /\ far = Null => SeenIn(far) = {}
     /\ far # Null =>
          /\ Seen(far[1].text) <=> diff * diff < BestAt(nearEnd)
          /\ Seen(far[1].text) => Pos(far[1].text) = nearEnd + 1
          /\ ~ Seen(far[1].text) => SeenIn(far) = {}

\* C17: nearest evaluates a node, then searches the near child (left if
\* query[axis] - split < 0, else right) completely, then the far child,
\* and the far child exactly when diff^2 < the best squared distance held
\* after the near child returned.
NearestOrder ==
  (last.op = "nearest" /\ Good(last.query) /\ root # Null)
    => /\ last.visited[1] = root[1].text
       /\ \A i, j \in 1..Len(last.visited) : i # j => last.visited[i] # last.visited[j]
       /\ \A t \in Subtrees(root) : Seen(t[1].text) => NearestOrderAt(t)

\* C17 witness: in one search a far child is entered at one node and left
\* out at another, at a plane exactly as far as the best
NearestOrderWitness ==
  /\ last.op = "nearest" /\ Good(last.query) /\ leaf_size = 1 /\ Len(dataset) = MaxN
  /\ \E t \in Subtrees(root) :
       LET n == t[1]
           diff == last.query[n.axis + 1] - n.point[n.axis + 1]
           far == IF diff < 0 THEN n.right ELSE n.left
       IN Seen(n.text) /\ far # Null /\ Seen(far[1].text)
  /\ \E t \in Subtrees(root) :
       LET n == t[1]
           diff == last.query[n.axis + 1] - n.point[n.axis + 1]
           far == IF diff < 0 THEN n.right ELSE n.left
       IN /\ Seen(n.text) /\ far # Null /\ ~ Seen(far[1].text)
          /\ diff * diff * SqrtScale * SqrtScale
               <= last.result[1][1] * last.result[1][1]
          /\ diff # 0

\* the node a visit-log entry names
NodeOf(t) == (CHOOSE x \in Subtrees(root) : x[1].text = t)[1]

\* the i-th visit of the last kNearest call: the queue before and after it
\* and the entry the visited node offers
HeapStep(i) ==
  LET prev == IF i = 1 THEN <<>> ELSE last.heaps[i - 1]
      cur == last.heaps[i]
      n == NodeOf(last.visited[i])
      item == <<squaredNorm(last.query, n.point, NoEig), n.text>>
      top == CHOOSE x \in Range(prev) : \A y \in Range(prev) : ~ PairLess(x, y)
  IN /\ Len(cur) <= last.k
     /\ Cardinality(Range(cur)) = Len(cur)
     /\ Len(prev) < last.k
          => Len(cur) = Len(prev) + 1 /\ Range(cur) = Range(prev) \cup { item }
     /\ Len(prev) >= last.k
          => IF item[1] < top[1]
             THEN Len(cur) = Len(prev) /\ Range(cur) = (Range(prev) \ { top }) \cup { item }
             ELSE cur = prev

\* C18: with k >= 1 the heap never holds more than k entries; an item is
\* pushed while it holds fewer, and at k entries an item replaces the top
\* only if its squared distance is strictly smaller.
BoundedHeap ==
  (last.op = "kNearest" /\ last.k >= 1 /\ Good(last.query))
    => /\ last.status = "ok"
       /\ Len(last.heaps) = Len(last.visited)
       /\ \A i \in 1..Len(last.visited) : HeapStep(i)

\* C18 witness: on a full heap one item at the top's distance is turned
\* away and a strictly closer one replaces the top
BoundedHeapWitness ==
  /\ last.op = "kNearest" /\ last.k = 2 /\ Good(last.query)
  /\ \E i \in 2..Len(last.visited) :
       /\ Len(last.heaps[i - 1]) = last.k
       /\ squaredNorm(last.query, NodeOf(last.visited[i]).point, NoEig) = last.heaps[i - 1][1][1]
       /\ last.heaps[i] = last.heaps[i - 1]
  /\ \E i \in 2..Len(last.visited) :
       /\ Len(last.heaps[i - 1]) = last.k
       /\ last.heaps[i] # last.heaps[i - 1]

\* the call just made repeats the kept one and returned
Repeated ==
  /\ memo.op # "none" /\ last.op = memo.op
  /\ last.query = memo.query /\ last.k = memo.k
  /\ last.status = "ok"

\* C12: a query leaves the tree and the LinearSearch data as they were, and
\* a repeated query returns what it returned before, whatever ran between.
ReadOnlyDeterministic ==
  [][ /\ pc = "ready" => UNCHANGED <<root, leaf_size, dimensions, node_count, data>>
      /\ (Repeated => last.result = memo.result)' ]_vars

\* the call just made embeds the text of the kept call, at its dimension
SameText ==
  /\ emb_memo.called /\ emb_last.called
  /\ emb_last.text = emb_memo.text /\ emb_last.dim = emb_memo.dim

\* C14: embedding a text again, on the same embedder after other calls or
\* on another fresh embedder of the same dimension, gives the same vector.
VectorizerDeterminism == SameText => emb_last.vec = emb_memo.vec

\* C14 witness: a text of two tokens embedded first by a fresh embedder and
\* again by an embedder that has served other calls
VectorizerDeterminismWitness ==
  /\ SameText
  /\ Len(emb_last.seeds) = 2
  /\ emb_memo.fresh /\ ~emb_last.fresh
  /\ \E j \in 1..Len(emb_last.vec) : emb_last.vec[j] # 0

\* bitwise exclusive or of two naturals
RECURSIVE Xor(_, _)
Xor(a, b) ==
  IF a = 0 THEN b
  ELSE IF b = 0 THEN a
  ELSE ((a + b) % 2) + 2 * Xor(a \div 2, b \div 2)

RECURSIVE Pow31(_)
Pow31(n) == IF n = 0 THEN 1 ELSE 31 * Pow31(n - 1)

\* the polynomial hash in closed form: sum of str[i] * 31^(n - i), wrapped
RECURSIVE PolySum(_, _)
PolySum(str, i) ==
  IF i > Len(str) THEN 0
  ELSE str[i] * Pow31(Len(str) - i) + PolySum(str, i + 1)

PolyHash(str) == PolySum(str, 1) % WordMod

\* the strings getTokenEmbedding is called with: the tokens, or the text
\* itself when it has no token
Seeded(e) ==
  IF Len(tokenize(e.text)) = 0 THEN <<e.text>> ELSE tokenize(e.text)

\* C15 as stated: every generator is seeded with seed XOR h(token), h the
\* polynomial hash with multiplier 31 over the unsigned bytes.
SeedIsXor ==
  emb_last.called =>
    \A i \in 1..Len(emb_last.seeds) :
      emb_last.seeds[i][2] = Xor(seed, PolyHash(emb_last.seeds[i][1]))

\* C15: every generator is seeded with seed + h(token), the sum wrapping
\* at the word width like the hash; one generator is seeded per token, or
\* one with the whole text when the text has no token.
SeedIsSum ==
  emb_last.called =>
    /\ Len(emb_last.seeds) = Len(Seeded(emb_last))
    /\ \A i \in 1..Len(emb_last.seeds) :
         /\ emb_last.seeds[i][1] = Seeded(emb_last)[i]
         /\ emb_last.seeds[i][2] = (seed + PolyHash(emb_last.seeds[i][1])) % WordMod

\* C15 witness: a string whose hash and whose sum with the seed both wrap,
\* and the sum is not the exclusive or
SeedIsSumWitness ==
  /\ emb_last.called
  /\ \E i \in 1..Len(emb_last.seeds) :
       LET str == emb_last.seeds[i][1]
       IN /\ PolySum(str, 1) >= WordMod
          /\ seed + PolyHash(str) >= WordMod
          /\ emb_last.seeds[i][2] # Xor(seed, PolyHash(str))

\* every item has the embedding dimension of the first
Uniform(db) == \A i \in 1..Len(db) : Len(db[i].embedding) = Len(db[1].embedding)

\* the four bytes of a 32-bit int, least significant first
Int32Layout(n) ==
  <<n % 256, (n \div 256) % 256, (n \div 65536) % 256, (n \div 16777216) % 256>>

\* where item i starts in the layout: after the three header ints and the
\* items before it
RECURSIVE ItemOffset(_, _)
ItemOffset(db, i) ==
  IF i = 1 THEN 3 * SizeofInt
  ELSE ItemOffset(db, i - 1) + SizeofInt + Len(db[i - 1].text)
         + Len(db[1].embedding) * SizeofDouble

\* the file holds processed_lines, the item count and the dimension, then
\* for each item its text length, its text and dimension doubles, and
\* nothing else
Layout(file, lines, db) ==
  /\ SubSeq(file, 1, SizeofInt) = Int32Layout(lines)
  /\ SubSeq(file, SizeofInt + 1, 2 * SizeofInt) = Int32Layout(Len(db))
  /\ SubSeq(file, 2 * SizeofInt + 1, 3 * SizeofInt)
       = Int32Layout(IF Len(db) = 0 THEN 0 ELSE Len(db[1].embedding))
  /\ \A i \in 1..Len(db) :
       LET off == ItemOffset(db, i)
       IN /\ SubSeq(file, off + 1, off + SizeofInt) = Int32Layout(Len(db[i].text))
          /\ SubSeq(file, off + SizeofInt + 1, off + SizeofInt + Len(db[i].text))
               = db[i].text
  /\ Len(file) = ItemOffset(db, Len(db) + 1)

\* C21: a database whose items all have one embedding dimension, saved and
\* then loaded, comes back with the same items in the same order, each with
\* its text and its embedding values, and the file follows the layout.
SnapshotRoundTrip ==
  (snap_load.called /\ snap_load.opened /\ Uniform(snap_db)) =>
    /\ Len(snap_load.db) = Len(snap_db)
    /\ \A i \in 1..Len(snap_db) :
         /\ snap_load.db[i].text = snap_db[i].text
         /\ snap_load.db[i].embedding = snap_db[i].embedding
    /\ Layout(snap_file.bytes, snap_file.lines, snap_db)

\* C21 witness: two items of dimension two with different two-byte texts,
\* one holding a zero byte, negative and multi-byte values, saved with
\* processed_lines = -1 and loaded
SnapshotRoundTripWitness ==
  /\ snap_load.called /\ snap_load.opened /\ Uniform(snap_db)
  /\ snap_save.ret /\ snap_file.lines = -1
  /\ Len(snap_db) = MaxSnapN /\ Len(snap_load.db) = MaxSnapN
  /\ snap_db[1].text = <<0, 65>> /\ snap_db[2].text = <<65, 0>>
  /\ snap_db[1].embedding = <<-1, 258>>
  /\ snap_db[2].embedding = <<258, -1>>

\* the number of items a buildTree call is given
CallSize(f) == f.end - f.start

\* the calls a step has put on the stack in place of the one it ran
NewCalls == 1..(Len(build_stack') - Len(build_stack) + 1)

\* a search has visited no node twice, and no more nodes than the tree has
VisitedOnce ==
  /\ Len(last.visited) <= node_count
  /\ \A i, j \in 1..Len(last.visited) : i # j => last.visited[i] # last.visited[j]

\* C22: for every dataset and every leaf_size, zero and negative ones
\* included, the construction comes to its end, every recursive buildTree
\* call being given a strictly smaller range than its caller; and a nearest
\* or kNearest call ends having visited each node at most once.
Termination ==
  /\ (pc = "building") ~> (pc = "tree")
  /\ [][ pc = "building" =>
           \A i \in NewCalls : CallSize(build_stack'[i]) < CallSize(Head(build_stack)) ]_vars
  /\ [](last.op \in {"nearest", "kNearest"} => VisitedOnce)

\* C22 witness: a tree built with leaf_size <= 0 over the largest dataset,
\* one node per item, and a kNearest call on it that visited every node
TerminationWitness ==
  /\ pc = "ready" /\ leaf_size <= 0
  /\ Len(dataset) = MaxBuildN /\ node_count = MaxBuildN
  /\ last.op = "kNearest" /\ last.status = "ok"
  /\ Len(last.visited) = node_count
====
